---------------------------- MODULE Spec2Model ----------------------------
(***************************************************************************)
(* Request validation and commit paths of the HR assistant:                *)
(*   app/mcp/tools.py       submit_leave_request, create_excuse (tools)    *)
(*   app/mcp/hr_service.py  HRService.submit_leave_request, create_excuse  *)
(*   app/db/database.py     get_db_session (one session per tool call)     *)
(*   app/db/models.py       tables leave_balances, leave_requests, excuses *)
(*   app/agent/pydantic_programs.py  DuplicateDetector                     *)
(*                                                                         *)
(* Storage is the default SQLite database (app/config.py:27).  SQLite has  *)
(* no row locks, so SQLAlchemy emits no FOR UPDATE for it: every SELECT of *)
(* a session reads the committed tables, and a session's writes (the       *)
(* UPDATE and INSERT sent by flush) become visible together at COMMIT.     *)
(* Dates are day numbers; a malformed date string is a negative number.    *)
(*                                                                         *)
(* Specifications:                                                         *)
(*   Spec            one caller, submit_leave_request with every input     *)
(*   SpecConc        concurrent callers of submit_leave_request            *)
(*   SpecTurns       two callers of submit_leave_request, one call at a    *)
(*                   time                                                  *)
(*   SpecExcuse      one caller of the create_excuse tool                  *)
(*   SpecService     the tool and direct calls of HRService.create_excuse  *)
(*   SpecExcuseConc  concurrent callers of the create_excuse tool          *)
(*   SpecCalendar    the conflict check over any two-row leave table       *)
(*   SpecParse       HRService.create_excuse over the accepted time shapes *)
(*   SpecDuplicate   DuplicateDetector.check_duplicate, one call           *)
(*   SpecProfile     get_employee_profile around the first anniversary     *)
(*   SpecUnknown     submit_leave_request, also for an unknown employee_id *)
(***************************************************************************)
EXTENDS Integers, Sequences, FiniteSets, TLC

VARIABLES
    balances,        \* leave_balances: (employee_id, leave_type) -> balance_days
    leave_requests,  \* leave_requests table, in id order (id = position)
    excuses,         \* excuses table, in id order (id = position)
    pc,              \* per caller: where its current tool call stands
    call,            \* per caller: arguments of the tool call in progress
    loc,             \* per caller: locals of the HRService method in progress
    response,        \* value handed back by the tool call that just returned
    held             \* per caller: the preview it was shown and may confirm

vars == <<balances, leave_requests, excuses, pc, call, loc, response, held>>

db == <<balances, leave_requests, excuses>>

-----------------------------------------------------------------------------
(* Bounds of the model *)

MaxDay == 2          \* dates offered to the tools are 0..MaxDay
MaxRequests == 2     \* leave requests committed on top of the seeded one
MaxExcuses == 2      \* excuses committed
MaxCallers == 2      \* concurrent callers in SpecConc and SpecExcuseConc

-----------------------------------------------------------------------------
(* Seed data (app/db/seed.py) and enumerations (app/db/models.py) *)

Today == 1

Employees == {"EMP002", "EMP005"}

\* the employees table: the two employees above and Fatima of HR
Directory == Employees \cup {"EMP004"}

Department(e) == IF e = "EMP004" THEN "HR" ELSE "Engineering"

RequestStatus == {"pending", "approved", "rejected", "resolved"}

LeaveType == {"annual", "sick", "unpaid"}

SeedAnnualEMP002 == 18
SeedSickEMP002 == 8
SeedAnnualEMP005 == 2
SeedSickEMP005 == 3
SeedUnpaid == 30

SeedBalance(e, t) ==
    IF t = "unpaid" THEN SeedUnpaid
    ELSE IF e = "EMP002"
         THEN (IF t = "annual" THEN SeedAnnualEMP002 ELSE SeedSickEMP002)
         ELSE (IF t = "annual" THEN SeedAnnualEMP005 ELSE SeedSickEMP005)

\* Khalid's approved leave on the coming Monday
SeedLeave ==
    [id |-> 1, employee_id |-> "EMP002", leave_type |-> "annual",
     start_date |-> Today + 1, end_date |-> Today + 1, status |-> "approved"]


-----------------------------------------------------------------------------
(* Values *)

NoDate == -1        \* result of parsing a malformed date string
NoRow == -1         \* a query that found no row
NA == -2            \* the preview's remaining_after for unpaid leave ("N/A")

NoCall == [op |-> "none"]
NoPreview == [kind |-> "none"]
NoHeld == [args |-> NoCall, preview |-> NoPreview]
NoLocals == [balance |-> NoRow, original_balance |-> NoRow, remaining_balance |-> NoRow]
NoResult == [kind |-> "none"]
NoResponse == [caller |-> 0, call |-> NoCall, result |-> NoResult]

\* datetime.strptime(s, "%Y-%m-%d").date(): a ValueError for a malformed string
ParseDate(s) == IF s < 0 THEN NoDate ELSE s

\* str.lower() on the one-word arguments leave_type and user_confirmed
LowerWord(word) ==
    CASE word = "Annual" -> "annual"
      [] word = "YES"    -> "yes"
      [] OTHER           -> word

\* leave_type_mapping.get(leave_type.lower(), leave_type.lower())
leave_type_mapping(leave_type) ==
    CASE LowerWord(leave_type) = "annual"  -> "annual"
      [] LowerWord(leave_type) = "sick"    -> "sick"
      [] LowerWord(leave_type) = "unpaid"  -> "unpaid"
      [] LowerWord(leave_type) = "medical" -> "sick"
      [] OTHER                             -> LowerWord(leave_type)

\* a tool that takes every call for a confirmed one
Confirmed_Always(user_confirmed) == TRUE

\* the tool's test for a confirmed call: user_confirmed.lower() == "yes"
Confirmed(user_confirmed) == LowerWord(user_confirmed) = "yes"

\* a day count that leaves the last day out
requested_days_Exclusive(start, end) == end - start

\* (end - start).days + 1
requested_days(start, end) == (end - start) + 1

\* db.query(LeaveBalance).filter(employee_id == e, leave_type == t).first()
QueryBalance(bal, e, t) ==
    IF <<e, t>> \in DOMAIN bal THEN bal[<<e, t>>] ELSE NoRow

\* db.query(Employee).filter(Employee.id == e).first()
QueryEmployee(e) == e \in Directory

\* a service that holds unpaid leave to its balance row as well
ChecksBalance_Always(lt) == TRUE

\* the balance is checked and charged for every type but unpaid
\* (hr_service.py 418 and 462: if lt != LeaveType.UNPAID)
ChecksBalance(lt) == lt # "unpaid"

\* a service that refuses only an empty balance
InsufficientBalance_ZeroOnly(balance_days, days) == balance_days <= 0

\* a service that lets a request one day over the balance through
InsufficientBalance_Lenient(balance_days, days) == balance_days + 1 < days

\* a service that never finds the balance too low
InsufficientBalance_Off(balance_days, days) == FALSE

\* the balance test of HRService.submit_leave_request (lines 424 and 477)
InsufficientBalance(balance_days, days) == balance_days < days

Rows(table) == {table[i] : i \in 1..Len(table)}

\* a calendar that lists the department's leave whatever its status
get_team_calendar_AnyStatus(requests, department, start_date, end_date) ==
    {r \in Rows(requests) :
        /\ r.employee_id \in {e \in Directory : Department(e) = department}
        /\ r.start_date <= end_date
        /\ r.end_date >= start_date}

\* HRService.get_team_calendar: pending/approved leave of the department's
\* employees that overlaps [start_date, end_date]
get_team_calendar(requests, department, start_date, end_date) ==
    LET employee_ids == {e \in Directory : Department(e) = department}
    IN {r \in Rows(requests) :
            /\ r.employee_id \in employee_ids
            /\ r.status \in {"approved", "pending"}
            /\ r.start_date <= end_date
            /\ r.end_date >= start_date}

\* team_conflicts of HRService.submit_leave_request: the calendar without
\* the requesting employee's own leave
team_conflicts(requests, employee_id, start_date, end_date) ==
    {c \in get_team_calendar(requests, Department(employee_id), start_date, end_date) :
        c.employee_id # employee_id}

\* HRService.get_leave_balance as the preview uses it: the remaining_days of
\* the row of that type, and 0 when the type is invalid or no row exists
PreviewBalance(bal, e, normalized_type) ==
    IF normalized_type \notin LeaveType THEN 0
    ELSE IF QueryBalance(bal, e, normalized_type) = NoRow THEN 0
    ELSE QueryBalance(bal, e, normalized_type)

\* the preview dict of the submit_leave_request tool: the keys the caller
\* acts on (there is no key for team conflicts); "error" is present exactly
\* when the balance is too low
Preview(bal, c) ==
    LET normalized_type == leave_type_mapping(c.leave_type)
        days == requested_days(c.start_date, c.end_date)
        current_balance == PreviewBalance(bal, c.employee_id, normalized_type)
    IN [kind |-> "preview",
        preview |-> TRUE,
        not_submitted_yet |-> TRUE,
        action_required |-> "ask_then_call_again_with_yes",
        leave_type |-> normalized_type,
        days |-> days,
        current_balance |-> current_balance,
        remaining_after |-> IF normalized_type # "unpaid" THEN current_balance - days ELSE NA,
        error |-> normalized_type # "unpaid" /\ current_balance < days]

\* the date checks the tool makes before anything else (lines 305-316)
DateError(c) ==
    IF ParseDate(c.start_date) = NoDate \/ ParseDate(c.end_date) = NoDate
        THEN "invalid_date_format"
    ELSE IF c.start_date < Today THEN "past_date"
    ELSE IF c.end_date < c.start_date THEN "end_before_start"
    ELSE "ok"


-----------------------------------------------------------------------------
(* Strings.  The tools take free text from the agent; a string is modelled *)
(* as the sequence of its characters so that the checks made on it         *)
(* (strip, lower, in, split, int, re.sub) are computed as the code does.   *)

UpperCase == <<"A","B","C","D","E","F","G","H","I","J","K","L","M",
               "N","O","P","Q","R","S","T","U","V","W","X","Y","Z">>
LowerCase == <<"a","b","c","d","e","f","g","h","i","j","k","l","m",
               "n","o","p","q","r","s","t","u","v","w","x","y","z">>
Digits == <<"0","1","2","3","4","5","6","7","8","9">>

\* str.lower()
LowerChar(ch) ==
    IF \E i \in 1..26 : UpperCase[i] = ch
      THEN LowerCase[CHOOSE i \in 1..26 : UpperCase[i] = ch]
      ELSE ch
RECURSIVE Lower(_)
Lower(str) == IF str = <<>> THEN <<>> ELSE <<LowerChar(Head(str))>> \o Lower(Tail(str))

\* str.strip()
RECURSIVE LStrip(_)
LStrip(str) == IF str # <<>> /\ Head(str) = " " THEN LStrip(Tail(str)) ELSE str
RECURSIVE RStrip(_)
RStrip(str) ==
    IF str # <<>> /\ str[Len(str)] = " " THEN RStrip(SubSeq(str, 1, Len(str) - 1)) ELSE str
Strip(str) == RStrip(LStrip(str))

\* pattern in str
Contains(str, pattern) ==
    \E i \in 0..(Len(str) - Len(pattern)) : SubSeq(str, i + 1, i + Len(pattern)) = pattern

\* len(str.split())
WordCount(str) ==
    Cardinality({i \in 1..Len(str) : str[i] # " " /\ (i = 1 \/ str[i - 1] = " ")})

\* str.replace(a, b) for single characters
RECURSIVE ReplaceChar(_, _, _)
ReplaceChar(str, a, b) ==
    IF str = <<>> THEN <<>>
    ELSE <<IF Head(str) = a THEN b ELSE Head(str)>> \o ReplaceChar(Tail(str), a, b)

\* str.isdigit()
IsDigit(ch) == \E i \in 1..10 : Digits[i] = ch
IsDigits(str) == str # <<>> /\ \A i \in 1..Len(str) : IsDigit(str[i])

DigitValue(ch) == (CHOOSE i \in 1..10 : Digits[i] = ch) - 1
RECURSIVE DigitsValue(_)
DigitsValue(str) ==
    IF str = <<>> THEN 0
    ELSE 10 * DigitsValue(SubSeq(str, 1, Len(str) - 1)) + DigitValue(str[Len(str)])

\* int(str): surrounding blanks and one sign are accepted; anything else is
\* a ValueError, given as NoInt
NoInt == -1000
SignedInt(t) ==
    IF t # <<>> /\ Head(t) \in {"+", "-"}
      THEN (IF ~IsDigits(Tail(t)) THEN NoInt
            ELSE IF Head(t) = "-" THEN 0 - DigitsValue(Tail(t))
            ELSE DigitsValue(Tail(t)))
    ELSE IF IsDigits(t) THEN DigitsValue(t)
    ELSE NoInt
PyInt(str) == SignedInt(Strip(str))

\* str.split(sep)[0] and the number of parts, for a one-character separator
Separators(str, sep) == {i \in 1..Len(str) : str[i] = sep}
FirstPart(str, sep) ==
    IF Separators(str, sep) = {} THEN str
    ELSE SubSeq(str, 1, (CHOOSE i \in Separators(str, sep) :
                            \A j \in Separators(str, sep) : i <= j) - 1)
RestPart(str, sep) ==
    SubSeq(str, Len(FirstPart(str, sep)) + 2, Len(str))

-----------------------------------------------------------------------------
(* Reason validation of the create_excuse tool (tools.py 472-511) *)

\* tools.py 482-486, the entries written in Latin script
echo_patterns ==
    {<<"i", " ", "w", "a", "s", " ", "l", "a", "t", "e">>,
     <<"w", "a", "s", " ", "l", "a", "t", "e", " ", "t", "o", "d", "a", "y">>,
     <<"l", "a", "t", "e", " ", "t", "o", "d", "a", "y">>,
     <<"c", "a", "m", "e", " ", "l", "a", "t", "e">>,
     <<"a", "r", "r", "i", "v", "e", "d", " ", "l", "a", "t", "e">>,
     <<"i", " ", "a", "m", " ", "l", "a", "t", "e">>,
     <<"i", "m", " ", "l", "a", "t", "e">>,
     <<"i", "'", "m", " ", "l", "a", "t", "e">>}

\* tools.py 489-497, the entries written in Latin script
generic_reasons ==
    {<<"l", "a", "t", "e">>,
     <<"l", "a", "t", "e", " ", "a", "r", "r", "i", "v", "a", "l">>,
     <<"d", "e", "l", "a", "y", "e", "d">>,
     <<"c", "o", "m", "i", "n", "g", " ", "l", "a", "t", "e">>,
     <<"t", "r", "a", "f", "f", "i", "c">>,
     <<"u", "n", "s", "p", "e", "c", "i", "f", "i", "e", "d">>,
     <<"r", "e", "a", "s", "o", "n">>,
     <<"e", "x", "c", "u", "s", "e">>,
     <<"p", "e", "r", "s", "o", "n", "a", "l">>,
     <<"p", "e", "r", "s", "o", "n", "a", "l", " ", "r", "e", "a", "s", "o", "n">>,
     <<"p", "e", "r", "s", "o", "n", "a", "l", " ", "r", "e", "a", "s", "o", "n", "s">>,
     <<"s", "i", "c", "k">>,
     <<"n", "o", "t", " ", "f", "e", "e", "l", "i", "n", "g", " ", "w", "e", "l", "l">>,
     <<"u", "n", "w", "e", "l", "l">>,
     <<"f", "o", "r", "g", "o", "t">>,
     <<"f", "o", "r", "g", "o", "t", " ", "t", "o", " ", "s", "u", "b", "m", "i", "t">>,
     <<"i", " ", "f", "o", "r", "g", "o", "t">>}

\* a tool without the length rule
ReasonGate_NoLength(reason) ==
    IF reason = <<>> \/ Strip(reason) = <<>> THEN "missing_reason"
    ELSE IF \E pattern \in echo_patterns : Contains(Strip(Lower(reason)), pattern)
      THEN "not_a_reason"
    ELSE IF Strip(Lower(reason)) \in generic_reasons THEN "generic_reason"
    ELSE "ok"

\* a tool that only asks for some reason
ReasonGate_OnlyMissing(reason) ==
    IF reason = <<>> \/ Strip(reason) = <<>> THEN "missing_reason" ELSE "ok"

\* the first gate that rejects the reason, or "ok"
ReasonGate(reason) ==
    LET reason_lower == Strip(Lower(reason))
    IN IF reason = <<>> \/ Strip(reason) = <<>> THEN "missing_reason"
       ELSE IF \E pattern \in echo_patterns : Contains(reason_lower, pattern)
            THEN "not_a_reason"
       ELSE IF reason_lower \in generic_reasons THEN "generic_reason"
       ELSE IF Len(Strip(reason)) < 10 \/ WordCount(reason) < 3 THEN "reason_too_short"
       ELSE "ok"

-----------------------------------------------------------------------------
(* Time parsing of HRService.create_excuse (hr_service.py 604-660) *)

NoTime == <<>>      \* None: no time given, or a time that does not parse

RECURSIVE SkipBlanks(_, _)
\* first position at or after i that holds no blank
SkipBlanks(str, i) ==
    IF i <= Len(str) /\ str[i] = " " THEN SkipBlanks(str, i + 1) ELSE i

StartsAt(str, i, pattern) ==
    /\ i + Len(pattern) - 1 <= Len(str)
    /\ SubSeq(str, i, i + Len(pattern) - 1) = pattern

\* where a match of \s*(am|pm|a\.m\.?|p\.m\.?)\s* that starts at i ends
\* (first position after it), or 0 when there is none
MeridiemMatch(str, i) ==
    LET j == SkipBlanks(str, i)
        k == IF StartsAt(str, j, <<"a","m">>) \/ StartsAt(str, j, <<"p","m">>)
               THEN j + 2
             ELSE IF StartsAt(str, j, <<"a",".","m">>) \/ StartsAt(str, j, <<"p",".","m">>)
               THEN (IF StartsAt(str, j + 3, <<".">>) THEN j + 4 ELSE j + 3)
             ELSE 0
    IN IF k = 0 THEN 0 ELSE SkipBlanks(str, k)

RECURSIVE RemoveMeridiem(_, _)
\* re.sub(r'\s*(am|pm|a\.m\.?|p\.m\.?)\s*', '', str) from position i on
RemoveMeridiem(str, i) ==
    IF i > Len(str) THEN <<>>
    ELSE IF MeridiemMatch(str, i) # 0 THEN RemoveMeridiem(str, MeridiemMatch(str, i))
    ELSE <<str[i]>> \o RemoveMeridiem(str, i + 1)

\* hr_service.py 656-660: the range test
ValidTime(hour, minute) ==
    IF ~(0 <= hour /\ hour <= 23) \/ ~(0 <= minute /\ minute <= 59) THEN NoTime
    ELSE <<hour, minute>>

\* a conversion that adds 12 to every PM hour, noon included
To24Hour_AlwaysAdds(hour, minute, is_pm, is_am) ==
    ValidTime(IF is_pm THEN hour + 12 ELSE hour, minute)

\* hr_service.py 650-654: 12-hour to 24-hour
To24Hour(hour, minute, is_pm, is_am) ==
    ValidTime(IF is_pm /\ hour < 12 THEN hour + 12
              ELSE IF is_am /\ hour = 12 THEN 0
              ELSE hour,
              minute)

\* hr_service.py 644-648: int(parts[0]), int(parts[1])
IntParts(hour, minute) ==
    IF hour = NoInt \/ minute = NoInt THEN NoTime ELSE <<hour, minute>>

\* hr_service.py 634-648: split at sep, exactly two parts
SplitTime(clean_time, sep) ==
    IF Cardinality(Separators(clean_time, sep)) # 1 THEN NoTime
    ELSE IntParts(PyInt(FirstPart(clean_time, sep)), PyInt(RestPart(clean_time, sep)))

\* hr_service.py 628-648: <<hour, minute>> as written, or NoTime
HourMinute(clean_time) ==
    IF IsDigits(clean_time) THEN <<DigitsValue(clean_time), 0>>
    ELSE IF Contains(clean_time, <<":">>) THEN SplitTime(clean_time, ":")
    ELSE IF Contains(clean_time, <<".">>) THEN SplitTime(clean_time, ".")
    ELSE NoTime

Convert(parts, is_pm, is_am) ==
    IF parts = NoTime THEN NoTime ELSE To24Hour(parts[1], parts[2], is_pm, is_am)

\* hr_service.py 621-660, from time_lower on
ParseLower(time_lower) ==
    Convert(HourMinute(Strip(RemoveMeridiem(time_lower, 1))),
            Contains(time_lower, <<"p", "m">>) \/ Contains(time_lower, <<"p", ".", "m">>),
            Contains(time_lower, <<"a", "m">>) \/ Contains(time_lower, <<"a", ".", "m">>))

\* parse_time: <<hour, minute>>, or NoTime for None
parse_time(time_str) ==
    IF time_str = <<>> THEN NoTime ELSE ParseLower(Lower(Strip(time_str)))

\* the hour the tool's suspicious-time test reads (tools.py 520):
\* int(time_val.split(':')[0].replace('.', ':').split(':')[0])
SuspiciousHour(time_val) ==
    PyInt(FirstPart(ReplaceChar(FirstPart(time_val, ":"), ".", ":"), ":"))

-----------------------------------------------------------------------------
(* DuplicateDetector (app/agent/pydantic_programs.py 387-460) *)

\* str.replace(pattern, "") from position i on: every occurrence, left to
\* right, without overlap
RECURSIVE RemoveAll(_, _, _)
RemoveAll(str, pattern, i) ==
    IF i > Len(str) THEN <<>>
    ELSE IF StartsAt(str, i, pattern) THEN RemoveAll(str, pattern, i + Len(pattern))
    ELSE <<str[i]>> \o RemoveAll(str, pattern, i + 1)

\* " ".join(str.split()): runs of blanks become one blank, none at the ends
RECURSIVE JoinSplit(_, _)
JoinSplit(str, i) ==
    IF SkipBlanks(str, i) > Len(str) THEN <<>>
    ELSE IF str[i] # " " THEN <<str[i]>> \o JoinSplit(str, i + 1)
    ELSE IF SkipBlanks(str, 1) = SkipBlanks(str, i) THEN JoinSplit(str, SkipBlanks(str, i))
    ELSE <<" ">> \o JoinSplit(str, SkipBlanks(str, i))

\* the fillers written in Latin script, in the order of the list
fillers ==
    <<<<"p", "l", "e", "a", "s", "e">>,
      <<"c", "a", "n", " ", "y", "o", "u">>,
      <<"c", "o", "u", "l", "d", " ", "y", "o", "u">>,
      <<"i", " ", "w", "a", "n", "t", " ", "t", "o">>,
      <<"i", " ", "n", "e", "e", "d", " ", "t", "o">>>>

\* the loop over the fillers, from filler number n on
RECURSIVE RemoveFillers(_, _)
RemoveFillers(normalized, n) ==
    IF n > Len(fillers) THEN normalized
    ELSE RemoveFillers(RemoveAll(normalized, fillers[n], 1), n + 1)

\* DuplicateDetector.normalize_message
normalize_message(message) == Strip(RemoveFillers(JoinSplit(Lower(message), 1), 1))

\* DuplicateDetector.create_fingerprint: the first 16 hex digits of the md5
\* of "intent:normalized", written as the text that is hashed (the digests
\* of the texts that occur here are pairwise different)
create_fingerprint(message, intent) ==
    [md5_16 |-> IF intent # "" THEN <<intent, ":", normalize_message(message)>>
                ELSE <<normalize_message(message)>>]

NoIndex == -1       \* original_message_index = None

\* position in chat_history (from 1) of the first entry of
\* chat_history[-lookback * 2:]
SliceStart(length, lookback) ==
    IF lookback * 2 = 0 THEN 1
    ELSE IF lookback * 2 >= length THEN 1
    ELSE length - lookback * 2 + 1

\* positions of the user messages of the slice whose fingerprint is the
\* current one
Matches(message, intent, chat_history, lookback) ==
    {p \in SliceStart(Len(chat_history), lookback)..Len(chat_history) :
        /\ chat_history[p].role = "user"
        /\ create_fingerprint(chat_history[p].content, intent)
              = create_fingerprint(message, intent)}

\* the index enumerate() gives to position p of chat_history
EnumerateIndex(p, length, lookback) == p - SliceStart(length, lookback)

\* DuplicateDetector.check_duplicate
check_duplicate(message, intent, chat_history, lookback) ==
    LET found == Matches(message, intent, chat_history, lookback)
    IN [kind |-> "duplicate_check",
        is_duplicate |-> found # {},
        original_message_index |->
            IF found = {} THEN NoIndex
            ELSE EnumerateIndex(CHOOSE p \in found : \A q \in found : p <= q,
                                Len(chat_history), lookback),
        message_fingerprint |-> create_fingerprint(message, intent)]

-----------------------------------------------------------------------------
(* Initial state: the seeded database, no call in progress *)

Callers == 1..MaxCallers

Init ==
    /\ balances = [k \in Employees \X LeaveType |-> SeedBalance(k[1], k[2])]
    /\ leave_requests = <<SeedLeave>>
    /\ excuses = <<>>
    /\ pc = [s \in Callers |-> "idle"]
    /\ call = [s \in Callers |-> NoCall]
    /\ loc = [s \in Callers |-> NoLocals]
    /\ response = NoResponse
    /\ held = [s \in Callers |-> NoHeld]

-----------------------------------------------------------------------------
(* A tool call returns and its session is closed.                          *)

Reply(s, c, result) ==
    /\ pc' = [pc EXCEPT ![s] = "idle"]
    /\ call' = [call EXCEPT ![s] = NoCall]
    /\ loc' = [loc EXCEPT ![s] = NoLocals]
    /\ response' = [caller |-> s, call |-> c, result |-> result]

\* The call goes on inside HRService with its session open.
Continue(s, c, at, locals) ==
    /\ pc' = [pc EXCEPT ![s] = at]
    /\ call' = [call EXCEPT ![s] = c]
    /\ loc' = [loc EXCEPT ![s] = locals]
    /\ response' = NoResponse

-----------------------------------------------------------------------------
(* submit_leave_request *)

\* tools.submit_leave_request up to the first balance check of
\* HRService.submit_leave_request (tools.py 304-390, hr_service.py 392-431)
submit_leave_request(s, c) ==
    LET normalized_type == leave_type_mapping(c.leave_type)
        days == requested_days(c.start_date, c.end_date)
        balance == QueryBalance(balances, c.employee_id, normalized_type)
    IN /\ UNCHANGED db
       /\ IF DateError(c) # "ok"
            THEN Reply(s, c, [kind |-> DateError(c)])
          ELSE IF ~Confirmed(c.user_confirmed)
            THEN Reply(s, c, Preview(balances, c))
          ELSE IF normalized_type \notin LeaveType
            THEN Reply(s, c, [kind |-> "invalid_leave_type"])
          ELSE IF ChecksBalance(normalized_type)
                  /\ (balance = NoRow \/ InsufficientBalance(balance, days))
            THEN Reply(s, c, [kind |-> "insufficient_balance",
                              available |-> IF balance = NoRow THEN 0 ELSE balance,
                              requested |-> days])
          ELSE Continue(s, c, "check_conflicts",
                        [NoLocals EXCEPT !.balance =
                            IF ChecksBalance(normalized_type) THEN balance ELSE NoRow])

\* a conflict check that warns whether or not the conflicts were acknowledged
CheckConflicts_AlwaysWarns(s) ==
    /\ pc[s] = "check_conflicts"
    /\ UNCHANGED <<db, held>>
    /\ Reply(s, call[s], [kind |-> "team_conflict", conflicts |-> {}])

\* a conflict check that lets every confirmed call through
CheckConflicts_Skipped(s) ==
    /\ pc[s] = "check_conflicts"
    /\ UNCHANGED <<db, held>>
    /\ Continue(s, call[s], "deduct", loc[s])

\* step 4 of HRService.submit_leave_request (hr_service.py 433-455)
CheckConflicts(s) ==
    LET c == call[s]
        conflicts == team_conflicts(leave_requests, c.employee_id,
                                    c.start_date, c.end_date)
    IN /\ pc[s] = "check_conflicts"
       /\ UNCHANGED <<db, held>>
       /\ IF ~c.confirm_conflicts /\ QueryEmployee(c.employee_id) /\ conflicts # {}
            THEN Reply(s, c, [kind |-> "team_conflict", conflicts |-> conflicts])
            ELSE Continue(s, c, "deduct", loc[s])

\* What the second balance query (with_for_update, hr_service.py 464-467)
\* hands to the code.  The row is already in the session's identity map, so
\* the ORM returns the object loaded at line 419 without refreshing it; an
\* ORM that refreshed it would return the committed row.  Both are allowed.
Requery(s, e, t) == {loc[s].balance, QueryBalance(balances, e, t)}

\* step 5 up to the in-memory deduction (hr_service.py 457-497)
Deduct(s) ==
    LET c == call[s]
        lt == leave_type_mapping(c.leave_type)
        days == requested_days(c.start_date, c.end_date)
    IN /\ pc[s] = "deduct"
       /\ UNCHANGED <<db, held>>
       /\ IF ~ChecksBalance(lt)
            THEN Continue(s, c, "commit", loc[s])
            ELSE \E balance \in Requery(s, c.employee_id, lt) :
                    IF balance = NoRow
                      THEN Reply(s, c, [kind |-> "balance_not_found"])
                    ELSE IF InsufficientBalance(balance, days)
                      THEN Reply(s, c, [kind |-> "insufficient_balance",
                                        available |-> balance, requested |-> days])
                    ELSE IF balance - days < 0
                      THEN Reply(s, c, [kind |-> "balance_underflow"])
                    ELSE Continue(s, c, "commit",
                                  [balance |-> balance - days,
                                   original_balance |-> balance,
                                   remaining_balance |-> balance - days])

\* the new LeaveRequest row (hr_service.py 500-507); the id is assigned by flush
NewLeaveRequest(requests, c) ==
    [id |-> Len(requests) + 1,
     employee_id |-> c.employee_id,
     leave_type |-> leave_type_mapping(c.leave_type),
     start_date |-> c.start_date,
     end_date |-> c.end_date,
     status |-> "pending"]

\* a flush that sends the INSERT without the UPDATE
FlushBalance_Skipped(bal, c, locals) == bal

\* the UPDATE of the dirty LeaveBalance object that flush sends
FlushBalance(bal, c, locals) ==
    IF ~ChecksBalance(leave_type_mapping(c.leave_type)) THEN bal
    ELSE [bal EXCEPT ![<<c.employee_id, leave_type_mapping(c.leave_type)>>] =
                locals.remaining_balance]

\* the result dict of a submitted request (hr_service.py 514-536)
SubmitResult(row, c, locals) ==
    [kind |-> "success",
     request_id |-> row.id,
     days |-> requested_days(c.start_date, c.end_date),
     balance_info |->
        IF locals.remaining_balance # NoRow
          THEN [original |-> locals.original_balance,
                used |-> requested_days(c.start_date, c.end_date),
                remaining |-> locals.remaining_balance]
          ELSE [original |-> NoRow, used |-> 0, remaining |-> NoRow]]

\* db.add, db.flush and db.commit succeed (hr_service.py 499-536)
Commit(s) ==
    /\ pc[s] = "commit"
    /\ leave_requests' = Append(leave_requests, NewLeaveRequest(leave_requests, call[s]))
    /\ balances' = FlushBalance(balances, call[s], loc[s])
    /\ UNCHANGED <<excuses, held>>
    /\ Reply(s, call[s], SubmitResult(NewLeaveRequest(leave_requests, call[s]), call[s], loc[s]))

\* flush or commit raises: nothing in HRService.submit_leave_request catches
\* it, get_db_session rolls the session back and re-raises (database.py 43-45)
CommitFails(s) ==
    /\ pc[s] = "commit"
    /\ UNCHANGED <<db, held>>
    /\ Reply(s, call[s], [kind |-> "exception"])

-----------------------------------------------------------------------------
(* create_excuse *)

LATE_ARRIVAL == <<"l", "a", "t", "e", "_", "a", "r", "r", "i", "v", "a", "l">>
EARLY_DEPARTURE == <<"e", "a", "r", "l", "y", "_", "d", "e", "p", "a", "r", "t", "u", "r", "e">>

\* ExcuseType(excuse_type.lower()); "invalid" stands for the ValueError
ExcuseType(excuse_type) ==
    IF Lower(excuse_type) = LATE_ARRIVAL THEN "late_arrival"
    ELSE IF Lower(excuse_type) = EARLY_DEPARTURE THEN "early_departure"
    ELSE "invalid"

\* the tool's normalisation of excuse_type (tools.py 457-461), Latin-script
\* keywords
NormalizeExcuseType(excuse_type) ==
    LET excuse_type_lower == ReplaceChar(Strip(Lower(excuse_type)), " ", "_")
    IN IF Contains(excuse_type_lower, <<"l", "a", "t", "e">>)
          \/ Contains(excuse_type_lower, <<"a", "r", "r", "i", "v", "a", "l">>)
         THEN LATE_ARRIVAL
       ELSE IF Contains(excuse_type_lower, <<"e", "a", "r", "l", "y">>)
          \/ Contains(excuse_type_lower, <<"d", "e", "p", "a", "r", "t", "u", "r", "e">>)
         THEN EARLY_DEPARTURE
       ELSE excuse_type

\* HRService.check_duplicate_excuse: the id of the first excuse with that
\* employee, date and type, or 0
check_duplicate_excuse(table, employee_id, excuse_date, excuse_type) ==
    LET existing == {i \in 1..Len(table) :
                        /\ table[i].employee_id = employee_id
                        /\ table[i].date = excuse_date
                        /\ table[i].excuse_type = ExcuseType(excuse_type)}
    IN IF ExcuseType(excuse_type) = "invalid" \/ existing = {} THEN 0
       ELSE CHOOSE i \in existing : \A j \in existing : i <= j

\* HRService.create_excuse up to the insert (hr_service.py 578-674): the
\* error it returns, or "ok"
ServiceGate(table, c) ==
    IF check_duplicate_excuse(table, c.employee_id, c.excuse_date, c.excuse_type) # 0
      THEN "duplicate_excuse"
    ELSE IF c.reason = <<>> \/ Strip(c.reason) = <<>> THEN "reason_required"
    ELSE IF ExcuseType(c.excuse_type) = "invalid" THEN "invalid_excuse_type"
    ELSE IF c.start_time # <<>> /\ parse_time(c.start_time) = NoTime
      THEN "invalid_start_time"
    ELSE IF c.end_time # <<>> /\ parse_time(c.end_time) = NoTime
      THEN "invalid_end_time"
    ELSE "ok"

\* the dict HRService.create_excuse returns for an error
ServiceError(table, c, error) ==
    [kind |-> error,
     existing_excuse |-> IF error = "duplicate_excuse"
                           THEN check_duplicate_excuse(table, c.employee_id,
                                                       c.excuse_date, c.excuse_type)
                           ELSE 0]

\* what the tool hands back for the dict of the service (tools.py 538-546):
\* the error code alone, or the Arabic message, which names the new id
ToolReply(result) ==
    IF result.kind = "success"
      THEN [kind |-> "success", excuse_id |-> result.excuse_id]
      ELSE [kind |-> result.kind]

ServiceReply(result) == result

\* what the caller of c gets: the tool's text or the dict of the service
ReplyOf(c, result) == IF c.op = "create_excuse" THEN ToolReply(result) ELSE ServiceReply(result)

\* HRService.create_excuse called with c: it returns an error or goes on to
\* the insert
create_excuse_service(s, c) ==
    IF ServiceGate(excuses, c) # "ok"
      THEN Reply(s, c, ReplyOf(c, ServiceError(excuses, c, ServiceGate(excuses, c))))
      ELSE Continue(s, c, "insert", NoLocals)

\* the create_excuse tool (tools.py 454-546) up to the insert
create_excuse(s, c) ==
    LET excuse_type == NormalizeExcuseType(c.excuse_type)
        time_val == IF excuse_type = LATE_ARRIVAL THEN c.start_time ELSE c.end_time
        h == SuspiciousHour(time_val)
    IN /\ UNCHANGED db
       /\ IF excuse_type = LATE_ARRIVAL /\ c.start_time = <<>>
            THEN Reply(s, c, [kind |-> "missing_arrival_time"])
          ELSE IF excuse_type = EARLY_DEPARTURE /\ c.end_time = <<>>
            THEN Reply(s, c, [kind |-> "missing_departure_time"])
          ELSE IF ReasonGate(c.reason) # "ok"
            THEN Reply(s, c, [kind |-> ReasonGate(c.reason)])
          ELSE IF time_val # <<>> /\ h # NoInt /\ 0 <= h /\ h < 6
            THEN Reply(s, c, [kind |-> "suspicious_time"])
          ELSE IF ParseDate(c.excuse_date) = NoDate
            THEN Reply(s, c, [kind |-> "invalid_date_format"])
          ELSE create_excuse_service(s, [c EXCEPT !.excuse_type = excuse_type])

\* HRService.create_excuse called directly, without the tool
HRService_create_excuse(s, c) ==
    /\ UNCHANGED db
    /\ create_excuse_service(s, c)

\* the new Excuse row (hr_service.py 677-685)
NewExcuse(table, c) ==
    [id |-> Len(table) + 1,
     employee_id |-> c.employee_id,
     date |-> c.excuse_date,
     excuse_type |-> ExcuseType(c.excuse_type),
     start_time |-> parse_time(c.start_time),
     end_time |-> parse_time(c.end_time),
     reason |-> Strip(c.reason),
     status |-> "pending"]

ExcuseResult(row) == [kind |-> "success", excuse_id |-> row.id, existing_excuse |-> 0]

\* db.add, db.flush and db.commit succeed (hr_service.py 676-700)
InsertExcuse(s) ==
    /\ pc[s] = "insert"
    /\ excuses' = Append(excuses, NewExcuse(excuses, call[s]))
    /\ UNCHANGED <<balances, leave_requests, held>>
    /\ Reply(s, call[s], ReplyOf(call[s], ExcuseResult(NewExcuse(excuses, call[s]))))

\* flush or commit raises: HRService.create_excuse catches it, rolls back and
\* returns an error dict (hr_service.py 701-703)
InsertExcuseFails(s) ==
    /\ pc[s] = "insert"
    /\ UNCHANGED <<db, held>>
    /\ Reply(s, call[s], ReplyOf(call[s], [kind |-> "failed_to_create_excuse", existing_excuse |-> 0]))

-----------------------------------------------------------------------------
(* The callers of the tools *)

InFlight == {s \in Callers : pc[s] # "idle"}

\* cap on the leave requests the model commits
LeaveBudget == (Len(leave_requests) - 1) + Cardinality(InFlight) < MaxRequests

LeaveArgs(employee_id, leave_type, range, confirm_conflicts, user_confirmed) ==
    [op |-> "submit_leave_request",
     employee_id |-> employee_id, leave_type |-> leave_type,
     start_date |-> range[1], end_date |-> range[2],
     confirm_conflicts |-> confirm_conflicts, user_confirmed |-> user_confirmed]

\* first invocation for a request: a preview, which the caller then holds,
\* or a call that carries user_confirmed="yes" at once
FirstCall(s, c) ==
    /\ pc[s] = "idle"
    /\ Confirmed(c.user_confirmed) => LeaveBudget
    /\ submit_leave_request(s, c)
    /\ held' = [held EXCEPT ![s] =
                    IF response'.result.kind = "preview"
                      THEN [args |-> c, preview |-> response'.result]
                      ELSE NoHeld]

\* second invocation: the caller confirms the request it holds a preview of
ConfirmCall(s, confirm_conflicts) ==
    /\ pc[s] = "idle"
    /\ held[s] # NoHeld
    /\ LeaveBudget
    /\ submit_leave_request(s, [held[s].args EXCEPT !.user_confirmed = "yes",
                                                    !.confirm_conflicts = confirm_conflicts])
    /\ UNCHANGED held

\* the caller drops the preview and never confirms it
Abandon(s) ==
    /\ pc[s] = "idle"
    /\ held[s] # NoHeld
    /\ held' = [held EXCEPT ![s] = NoHeld]
    /\ response' = NoResponse
    /\ UNCHANGED <<db, pc, call, loc>>

\* a call by a caller that keeps nothing between its calls
StatelessCall(s, c) ==
    /\ pc[s] = "idle"
    /\ Confirmed(c.user_confirmed) => LeaveBudget
    /\ submit_leave_request(s, c)
    /\ UNCHANGED held

\* cap on the excuses the model commits
ExcuseBudget == Len(excuses) + Cardinality(InFlight) < MaxExcuses

ExcuseArgs(op, employee_id, excuse_date, excuse_type, reason, times) ==
    [op |-> op,
     employee_id |-> employee_id, excuse_date |-> excuse_date,
     excuse_type |-> excuse_type, reason |-> reason,
     start_time |-> times[1], end_time |-> times[2]]

\* the agent calls the create_excuse tool
ExcuseCall(s, c) ==
    /\ pc[s] = "idle"
    /\ ExcuseBudget
    /\ create_excuse(s, c)
    /\ UNCHANGED held

\* HRService.create_excuse is called without the tool in front of it
ServiceCall(s, c) ==
    /\ pc[s] = "idle"
    /\ ExcuseBudget
    /\ HRService_create_excuse(s, c)
    /\ UNCHANGED held

ValidRanges == {r \in (Today..MaxDay) \X (Today..MaxDay) : r[1] <= r[2]}

\* a range one day longer than the largest seeded balance
LongRange == <<Today, Today + SeedUnpaid>>

\* malformed start, malformed end, start in the past, end before start
BadRanges == {<<NoDate, Today>>, <<Today, NoDate>>, <<Today - 1, Today>>, <<MaxDay, Today>>}

Confirmations == {<<FALSE, "no">>, <<FALSE, "yes">>, <<TRUE, "yes">>, <<TRUE, "YES">>}

AllLeaveArgs ==
    {LeaveArgs(e, t, r, f[1], f[2]) :
        e \in Employees, t \in {"annual", "Annual", "medical", "unpaid", "vacation"},
        r \in ValidRanges \cup {LongRange} \cup BadRanges, f \in Confirmations}

\* one caller at a time, every input
Next ==
    \/ \E c \in AllLeaveArgs : FirstCall(1, c)
    \/ \E cc \in BOOLEAN : ConfirmCall(1, cc)
    \/ Abandon(1)
    \/ CheckConflicts(1)
    \/ Deduct(1)
    \/ Commit(1)
    \/ CommitFails(1)

Spec == Init /\ [][Next]_vars

ValidLeaveArgs ==
    {LeaveArgs(e, t, r, f[1], f[2]) :
        e \in Employees, t \in {"annual", "unpaid"},
        r \in ValidRanges, f \in Confirmations}

\* concurrent callers, each tool call in its own session
NextConc ==
    \E s \in Callers :
        \/ \E c \in ValidLeaveArgs : StatelessCall(s, c)
        \/ CheckConflicts(s)
        \/ Deduct(s)
        \/ Commit(s)
        \/ CommitFails(s)

SpecConc == Init /\ [][NextConc]_vars

\* two callers, one call at a time: caller 1 previews and later confirms or
\* abandons, caller 2 submits confirmed requests in between
NextTurns ==
    \/ \E c \in ValidLeaveArgs : InFlight = {} /\ ~Confirmed(c.user_confirmed) /\ FirstCall(1, c)
    \/ \E cc \in BOOLEAN : InFlight = {} /\ ConfirmCall(1, cc)
    \/ Abandon(1)
    \/ \E c \in ValidLeaveArgs : InFlight = {} /\ Confirmed(c.user_confirmed) /\ StatelessCall(2, c)
    \/ \E s \in Callers :
        \/ CheckConflicts(s)
        \/ Deduct(s)
        \/ Commit(s)
        \/ CommitFails(s)

SpecTurns == Init /\ [][NextTurns]_vars

-----------------------------------------------------------------------------
(* Excuse requests: inputs and specifications *)

GoodReason == <<"s", "t", "u", "c", "k", " ", "b", "e", "h", "i", "n", "d", " ", "a", "n", " ", "o", "v", "e", "r", "t", "u", "r", "n", "e", "d", " ", "t", "r", "u", "c", "k", " ", "o", "n", " ", "t", "h", "e", " ", "h", "i", "g", "h", "w", "a", "y">>

ReasonInputs ==
    {<<>>,
     <<" ", " ", " ">>,
     <<"t", "r", "a", "f", "f", "i", "c">>,
     <<"I", " ", "w", "a", "s", " ", "l", "a", "t", "e", " ", "t", "o", "d", "a", "y">>,
     <<"o", "k">>,
     <<" ", "T", "r", "a", "f", "f", "i", "c", " ">>,
     <<"o", "v", "e", "r", "s", "l", "e", "p", "t", " ", "b", "a", "d", "l", "y">>,
     <<"a", " ", "b", " ", "c">>,
     GoodReason}

\* <<start_time, end_time>>; <<>> is a time that was not given
TimeInputs ==
    {<<<<>>, <<>>>>,
     <<<<"8", ":", "1", "7">>, <<>>>>,
     <<<<"8", ".", "1", "7">>, <<>>>>,
     <<<<"3", "p", "m">>, <<>>>>,
     <<<<"0", ":", "4", "5">>, <<>>>>,
     <<<<"9", ":", "7", "5">>, <<>>>>,
     <<<<"s", "o", "o", "n">>, <<>>>>,
     <<<<>>, <<"3", "p", "m">>>>,
     <<<<>>, <<"1", "7", ":", "3", "0">>>>,
     <<<<"8", ":", "1", "7">>, <<"s", "o", "o", "n">>>>,
     <<<<"8", ":", "1", "7">>, <<"0", ":", "4", "5">>>>,
     <<<<"3", ".", "3", "0">>, <<>>>>,
     <<<<"3", ":", "0", "0", " ", "A", "M">>, <<>>>>,
     <<<<"5", "a", "m">>, <<>>>>,
     <<<<"1", "2", ":", "3", "0", " ", "a", "m">>, <<>>>>}

ExcuseTypeInputs ==
    {LATE_ARRIVAL,
     <<"E", "a", "r", "l", "y", " ", "D", "e", "p", "a", "r", "t", "u", "r", "e">>,
     <<"a", "b", "s", "e", "n", "c", "e">>}

\* every type with every pair of times; every reason; a malformed date
AllExcuseArgs ==
    {ExcuseArgs("create_excuse", "EMP005", Today, t, GoodReason, ts) :
        t \in ExcuseTypeInputs, ts \in TimeInputs}
    \cup {ExcuseArgs("create_excuse", "EMP005", Today, LATE_ARRIVAL, r, <<<<"8", ":", "1", "7">>, <<>>>>) :
        r \in ReasonInputs}
    \cup {ExcuseArgs("create_excuse", "EMP005", NoDate, LATE_ARRIVAL, GoodReason, <<<<"8", ":", "1", "7">>, <<>>>>)}

\* calls of the service method by code other than the tool
ServiceArgs ==
    {ExcuseArgs("HRService.create_excuse", "EMP005", Today, LATE_ARRIVAL, r, ts) :
        r \in {<<"o", "k">>, <<" ", " ", " ">>},
        ts \in {<<<<>>, <<>>>>, <<<<"8", ":", "1", "7">>, <<>>>>, <<<<"s", "o", "o", "n">>, <<>>>>}}

\* one caller at a time, through the tool
NextExcuse ==
    \/ \E c \in AllExcuseArgs : ExcuseCall(1, c)
    \/ InsertExcuse(1)
    \/ InsertExcuseFails(1)

SpecExcuse == Init /\ [][NextExcuse]_vars

\* one caller at a time, through the tool or straight to the service
NextService ==
    \/ \E c \in AllExcuseArgs : ExcuseCall(1, c)
    \/ \E c \in ServiceArgs : ServiceCall(1, c)
    \/ InsertExcuse(1)
    \/ InsertExcuseFails(1)

SpecService == Init /\ [][NextService]_vars

ValidExcuseArgs ==
    {ExcuseArgs("create_excuse", e, Today, t, <<"f", "l", "a", "t", " ", "t", "y", "r", "e", " ", "o", "n", " ", "t", "h", "e", " ", "r", "i", "n", "g", " ", "r", "o", "a", "d">>, ts) :
        e \in Employees, t \in {LATE_ARRIVAL, EARLY_DEPARTURE},
        ts \in {<<<<"8", ":", "1", "7">>, <<"1", "7", ":", "3", "0">>>>, <<<<"9", ".", "0", "5">>, <<"3", "p", "m">>>>}}

\* concurrent callers, each tool call in its own session
NextExcuseConc ==
    \E s \in Callers :
        \/ \E c \in ValidExcuseArgs : ExcuseCall(s, c)
        \/ InsertExcuse(s)
        \/ InsertExcuseFails(s)

SpecExcuseConc == Init /\ [][NextExcuseConc]_vars

-----------------------------------------------------------------------------
(* parse_time over the accepted shapes *)

\* the decimal digit d as a character
DigitChar(d) == Digits[d + 1]

\* n written as the user would: without or with a leading zero ("8", "08")
Numeral(n, pad) ==
    IF n >= 10 THEN <<DigitChar(n \div 10), DigitChar(n % 10)>>
    ELSE IF pad THEN <<"0", DigitChar(n)>>
    ELSE <<DigitChar(n)>>

Meridiems == {<<>>, <<" ", "A", "M">>, <<"p", "m">>}

\* hours and minutes around every limit of the rule
CaseHours == {0, 3, 8, 12, 13, 24}
CaseMinutes == {17, 60}

\* H:MM or HH:MM with colon or dot and an optional AM/PM, and hour-only with
\* AM/PM; sep "" marks the hour-only shape
TimeCases ==
    {k \in {[h |-> h, pad |-> pad, m |-> m, sep |-> sep, mer |-> mer] :
                h \in CaseHours, pad \in BOOLEAN, m \in CaseMinutes,
                sep \in {":", "."}, mer \in Meridiems}
             \cup {[h |-> h, pad |-> pad, m |-> 0, sep |-> "", mer |-> mer] :
                h \in CaseHours, pad \in BOOLEAN, mer \in Meridiems \ {<<>>}} :
        k.pad => k.h = 8}

\* the string of a case
Render(k) ==
    IF k.sep = "" THEN Numeral(k.h, k.pad) \o k.mer
    ELSE Numeral(k.h, k.pad) \o <<k.sep>> \o Numeral(k.m, TRUE) \o k.mer

ParseArgs ==
    {ExcuseArgs("HRService.create_excuse", "EMP005", Today, LATE_ARRIVAL, GoodReason,
                <<Render(k), <<>>>>) : k \in TimeCases}

NextParse ==
    \/ \E c \in ParseArgs : ServiceCall(1, c)
    \/ InsertExcuse(1)
    \/ InsertExcuseFails(1)

SpecParse == Init /\ [][NextParse]_vars

-----------------------------------------------------------------------------
(* get_employee_profile.  Its dates are day numbers counted from           *)
(* 2020-01-01.                                                             *)

\* days of tenure the calls reach on either side of one year
MaxTenureSlack == 20

HireEMP002 == 882       \* 2022-06-01
HireEMP004 == 263       \* 2020-09-20
HireEMP005 == 1678      \* 2024-08-05

hire_date(e) ==
    CASE e = "EMP002" -> HireEMP002
      [] e = "EMP004" -> HireEMP004
      [] OTHER        -> HireEMP005

YearDays == 365

\* an eligibility that starts the day after the first year is complete
eligible_for_advance_DayLate(tenure_days) == tenure_days > YearDays

\* tenure_years >= 1 with tenure_years = tenure_days / 365: the quotient of
\* the float division is at least 1 exactly when its integer part is
eligible_for_advance(tenure_days) == tenure_days \div YearDays >= 1

\* the dict HRService.get_employee_profile returns, or None
Profile(e, today) ==
    IF ~QueryEmployee(e) THEN [kind |-> "None"]
    ELSE [kind |-> "profile",
          id |-> e,
          department |-> Department(e),
          hire_date |-> hire_date(e),
          eligible_for_advance |-> eligible_for_advance(today - hire_date(e))]

\* the get_employee_profile tool, called on the day today
get_employee_profile(s, e, today) ==
    /\ pc[s] = "idle"
    /\ UNCHANGED <<db, held>>
    /\ Reply(s, [op |-> "get_employee_profile", employee_id |-> e, today |-> today],
             Profile(e, today))

\* an id that is not in the employees table
UnknownEmployee == "EMP999"

\* the days around the first anniversary of e
ProfileDays(e) ==
    (hire_date(e) + YearDays - MaxTenureSlack)..(hire_date(e) + YearDays + MaxTenureSlack)

NextProfile ==
    \E e \in Directory \cup {UnknownEmployee} :
        \E today \in ProfileDays(e) : get_employee_profile(1, e, today)

SpecProfile == Init /\ [][NextProfile]_vars

-----------------------------------------------------------------------------
(* DuplicateDetector.check_duplicate over short chat histories *)

\* longest chat history
MaxHistory == 4

BaseMessage == <<"b", "o", "o", "k", " ", "l", "e", "a", "v", "e", " ", "n", "o", "w">>
OtherMessage == <<"b", "o", "o", "k", " ", "a", " ", "r", "o", "o", "m", " ", "n", "o", "w">>

\* the base message, and the base message in other letter case and spacing,
\* with a filler in front, at the end and in the middle
Messages ==
    {BaseMessage,
     OtherMessage,
     <<"B", "o", "o", "k", " ", " ", "L", "e", "a", "v", "e", " ", " ", " ", "N", "O", "W">>,
     <<"p", "l", "e", "a", "s", "e", " ", "b", "o", "o", "k", " ", "l", "e", "a", "v", "e", " ", "n", "o", "w">>,
     <<"b", "o", "o", "k", " ", "l", "e", "a", "v", "e", " ", "n", "o", "w", " ", "p", "l", "e", "a", "s", "e">>,
     <<"b", "o", "o", "k", " ", "l", "e", "a", "v", "e", " ", "p", "l", "e", "a", "s", "e", " ", "n", "o", "w">>}

Intents == {"leave_request", "excuse"}

\* the default of the parameter (pydantic_programs.py 418)
LookbackDefault == 5

Lookbacks == {0, 1, LookbackDefault}

HistoryEntries ==
    {[role |-> "user", content |-> BaseMessage],
     [role |-> "user", content |-> OtherMessage],
     [role |-> "assistant", content |-> BaseMessage]}

Histories == UNION {[1..n -> HistoryEntries] : n \in 0..MaxHistory}

DuplicateArgs ==
    {[op |-> "check_duplicate", message |-> m, intent |-> i,
      chat_history |-> h, lookback |-> l] :
        m \in Messages, i \in Intents, h \in Histories, l \in Lookbacks}

\* a call of check_duplicate with any of the arguments is about to run
InitDuplicate ==
    /\ balances = [k \in Employees \X LeaveType |-> SeedBalance(k[1], k[2])]
    /\ leave_requests = <<SeedLeave>>
    /\ excuses = <<>>
    /\ pc = [s \in Callers |-> IF s = 1 THEN "check_duplicate" ELSE "idle"]
    /\ \E c \in DuplicateArgs : call = [s \in Callers |-> IF s = 1 THEN c ELSE NoCall]
    /\ loc = [s \in Callers |-> NoLocals]
    /\ response = NoResponse
    /\ held = [s \in Callers |-> NoHeld]

\* the call returns its DuplicateDetectionResult
CheckDuplicate(s) ==
    /\ pc[s] = "check_duplicate"
    /\ UNCHANGED <<db, held>>
    /\ Reply(s, call[s], check_duplicate(call[s].message, call[s].intent,
                                         call[s].chat_history, call[s].lookback))

NextDuplicate == \E s \in Callers : CheckDuplicate(s)

SpecDuplicate == InitDuplicate /\ [][NextDuplicate]_vars

-----------------------------------------------------------------------------
(* The team calendar over any leave table *)

\* a leave row of any employee of the directory, in any status
CalendarRows(id) ==
    {[id |-> id, employee_id |-> e, leave_type |-> "annual",
      start_date |-> r[1], end_date |-> r[2], status |-> st] :
        e \in Directory, r \in {<<Today, Today>>, <<MaxDay, MaxDay>>}, st \in RequestStatus}

\* the leave table holds any two such rows
InitCalendar ==
    /\ balances = [k \in Employees \X LeaveType |-> SeedBalance(k[1], k[2])]
    /\ \E r1 \in CalendarRows(1), r2 \in CalendarRows(2) : leave_requests = <<r1, r2>>
    /\ excuses = <<>>
    /\ pc = [s \in Callers |-> "idle"]
    /\ call = [s \in Callers |-> NoCall]
    /\ loc = [s \in Callers |-> NoLocals]
    /\ response = NoResponse
    /\ held = [s \in Callers |-> NoHeld]

\* confirmed unpaid requests of every employee of the directory
CalendarArgs ==
    {LeaveArgs(e, "unpaid", r, cc, "yes") :
        e \in Directory, r \in ValidRanges, cc \in BOOLEAN}

NextCalendar ==
    \/ \E c \in CalendarArgs : StatelessCall(1, c)
    \/ CheckConflicts(1)
    \/ Deduct(1)
    \/ Commit(1)
    \/ CommitFails(1)

SpecCalendar == InitCalendar /\ [][NextCalendar]_vars

-----------------------------------------------------------------------------
(* submit_leave_request for employee ids in and out of the employees       *)
(* table.  leave_requests.employee_id is declared ForeignKey("employees.id")*)
(* (models.py 72); the code never sets PRAGMA foreign_keys on its          *)
(* connections (database.py 12-16), so SQLite does not enforce it and the  *)
(* INSERT of Commit goes through for any employee_id.                      *)

UnknownArgs ==
    {LeaveArgs(e, t, r, f[1], f[2]) :
        e \in Employees \cup {UnknownEmployee}, t \in {"annual", "unpaid"},
        r \in ValidRanges, f \in Confirmations}

NextUnknown ==
    \/ \E c \in UnknownArgs : StatelessCall(1, c)
    \/ CheckConflicts(1)
    \/ Deduct(1)
    \/ Commit(1)
    \/ CommitFails(1)

SpecUnknown == Init /\ [][NextUnknown]_vars

-----------------------------------------------------------------------------
(* Properties *)

PaidTypes == LeaveType \ {"unpaid"}

RowDays(r) == requested_days(r.start_date, r.end_date)

\* day counts of the rows of one account, summed
RECURSIVE CommittedDays(_, _, _)
CommittedDays(requests, e, t) ==
    IF requests = <<>> THEN 0
    ELSE (IF Head(requests).employee_id = e /\ Head(requests).leave_type = t
            THEN RowDays(Head(requests)) ELSE 0)
         + CommittedDays(Tail(requests), e, t)

\* the leave requests committed since the initial state
Submitted == Tail(leave_requests)

\* C1: whatever the interleaving of submit_leave_request calls, the stored
\* balance of every paid account is never negative and equals the initial
\* balance minus the day counts of the requests committed against the account.
C1_LedgerExact ==
    \A e \in Employees, t \in PaidTypes :
        /\ balances[<<e, t>>] >= 0
        /\ balances[<<e, t>>] = SeedBalance(e, t) - CommittedDays(Submitted, e, t)

\* C2: two confirmed calls against one paid account never both succeed when
\* their day counts together exceed the balance the account had before either
\* of them started.
C2_NoJointOverdraw ==
    \A i, j \in 2..Len(leave_requests) :
        (/\ i < j
         /\ leave_requests[i].employee_id = leave_requests[j].employee_id
         /\ leave_requests[i].leave_type = leave_requests[j].leave_type
         /\ leave_requests[i].leave_type \in PaidTypes
         /\ CommittedDays(SubSeq(leave_requests, 2, i - 1),
                          leave_requests[i].employee_id, leave_requests[i].leave_type) = 0)
        => RowDays(leave_requests[i]) + RowDays(leave_requests[j])
              <= SeedBalance(leave_requests[i].employee_id, leave_requests[i].leave_type)

\* Caller s takes the step: its call moves on, or its call returns.
Acts(s) == pc'[s] # pc[s] \/ response'.caller = s

\* the tool call the step of caller s belongs to
ActingCall(s) ==
    IF pc[s] # "idle" THEN call[s]
    ELSE IF pc'[s] # "idle" THEN call'[s]
    ELSE response'.call

IsLeaveCall(c) == c.op = "submit_leave_request"

\* user_confirmed, whatever its letter case, says yes
SaysYes(c) == LowerWord(c.user_confirmed) = "yes"

\* C3: no step of a submit_leave_request call that does not carry
\* user_confirmed "yes" (a preview) changes a balance, the leave requests or
\* the excuses, whatever the call returns.
C3_PreviewReadOnly ==
    [][\A s \in Callers :
          (Acts(s) /\ IsLeaveCall(ActingCall(s)) /\ ~SaysYes(ActingCall(s)))
          => UNCHANGED db]_vars

\* a preview flagged with insufficient balance, returned after a request was
\* committed
C3_Witness ==
    /\ response.result.kind = "preview"
    /\ response.result.error
    /\ ~SaysYes(response.call)
    /\ Len(leave_requests) > 1

ColleagueOverlaps(requests, c) ==
    \E r \in Rows(requests) :
        /\ r.employee_id # c.employee_id
        /\ Department(r.employee_id) = Department(c.employee_id)
        /\ r.status \in {"pending", "approved"}
        /\ r.start_date <= c.end_date
        /\ r.end_date >= c.start_date

WellFormedRange(c) == Today <= c.start_date /\ c.start_date <= c.end_date

ValidType(c) == LowerWord(c.leave_type) \in {"annual", "sick", "unpaid", "medical"}

\* a confirmed call that does not acknowledge conflicts, made while a
\* colleague's leave overlaps its range
Unacknowledged(c) ==
    /\ IsLeaveCall(c)
    /\ SaysYes(c)
    /\ ~c.confirm_conflicts
    /\ WellFormedRange(c)
    /\ ColleagueOverlaps(leave_requests, c)

\* C5 as stated: a confirmed call without confirm_conflicts, made while a
\* colleague's leave overlaps the requested range, returns the team_conflict
\* warning and writes nothing (here for calls of a valid leave type only).
C5_AlwaysTeamConflict ==
    [][\A s \in Callers :
          (response'.caller = s /\ Unacknowledged(response'.call) /\ ValidType(response'.call))
          => (response'.result.kind = "team_conflict" /\ UNCHANGED db)]_vars

\* C5, amended: such a call never writes anything; it returns team_conflict
\* when it reaches the conflict check, that is when its leave type is valid
\* and the balance covers the days (or the type is unpaid), and otherwise the
\* invalid_leave_type or insufficient_balance error of the earlier checks.
C5_NoCommitWithoutAcknowledgement ==
    [][\A s \in Callers :
          (Acts(s) /\ Unacknowledged(ActingCall(s))) =>
             /\ UNCHANGED db
             /\ pc'[s] \in {"idle", "check_conflicts"}
             /\ pc[s] = "check_conflicts" => response'.result.kind = "team_conflict"
             /\ response'.caller = s =>
                   response'.result.kind
                      \in {"team_conflict", "invalid_leave_type", "insufficient_balance"}]_vars

\* the warning, returned to a call that said yes
C5_Witness ==
    /\ response.result.kind = "team_conflict"
    /\ SaysYes(response.call)
    /\ ~response.call.confirm_conflicts
    /\ Len(leave_requests) > 1

SameRequest(a, b) ==
    /\ a.employee_id = b.employee_id
    /\ leave_type_mapping(a.leave_type) = leave_type_mapping(b.leave_type)
    /\ a.start_date = b.start_date
    /\ a.end_date = b.end_date

\* C6: the same confirmed request (employee, leave type, start and end date)
\* issued twice is committed once: no two committed rows carry the same
\* employee, type and dates.
C6_CommittedOnce ==
    \A i, j \in 2..Len(leave_requests) :
        i < j =>
          ~(/\ leave_requests[i].employee_id = leave_requests[j].employee_id
            /\ leave_requests[i].leave_type = leave_requests[j].leave_type
            /\ leave_requests[i].start_date = leave_requests[j].start_date
            /\ leave_requests[i].end_date = leave_requests[j].end_date)

\* C7: the excuses table holds at most one row per employee, date and type.
C7_OneExcusePerKey ==
    \A i, j \in 1..Len(excuses) :
        i < j =>
          ~(/\ excuses[i].employee_id = excuses[j].employee_id
            /\ excuses[i].date = excuses[j].date
            /\ excuses[i].excuse_type = excuses[j].excuse_type)

\* C8: a confirmed call for a request the caller holds a preview of decides
\* on the balance stored when it runs, not on the previewed one: with the
\* stored balance below the requested days it returns insufficient_balance,
\* naming the stored balance, and writes nothing; when it succeeds the
\* deduction is taken from the stored balance.  Calls run one at a time.
C8_DecidesOnStoredBalance ==
    [][\A s \in Callers :
          LET c == ActingCall(s)
              account == <<c.employee_id, leave_type_mapping(c.leave_type)>>
              days == RowDays(c)
          IN (/\ Acts(s)
              /\ IsLeaveCall(c)
              /\ SaysYes(c)
              /\ held[s] # NoHeld
              /\ SameRequest(held[s].args, c)
              /\ account[2] \in PaidTypes)
             => /\ (pc[s] = "idle" /\ balances[account] < days) =>
                     /\ response'.caller = s
                     /\ response'.result = [kind |-> "insufficient_balance",
                                            available |-> balances[account],
                                            requested |-> days]
                     /\ UNCHANGED db
                /\ (response'.caller = s /\ response'.result.kind = "success") =>
                     /\ balances'[account] = balances[account] - days
                     /\ response'.result.balance_info.original = balances[account]]_vars

\* the preview showed enough, the confirmed call found too little
C8_Witness ==
    /\ response.result.kind = "insufficient_balance"
    /\ held[response.caller] # NoHeld
    /\ SameRequest(held[response.caller].args, response.call)
    /\ ~held[response.caller].preview.error
    /\ held[response.caller].preview.current_balance >= response.result.requested
    /\ response.result.available < response.result.requested

\* C9: a request is committed only by the second invocation of the attempt:
\* a call that returns success was preceded by a preview of the same request,
\* which its caller still holds.
C9_CommittedOnlyAfterPreview ==
    (response.result.kind = "success" /\ IsLeaveCall(response.call))
    => /\ held[response.caller] # NoHeld
       /\ SameRequest(held[response.caller].args, response.call)

\* the reason rules of the claim: not blank, no echo of the trigger, no
\* generic placeholder, at least 10 characters and 3 words
ValidatedReason(reason) ==
    /\ Strip(reason) # <<>>
    /\ \A pattern \in echo_patterns : ~Contains(Strip(Lower(reason)), pattern)
    /\ Strip(Lower(reason)) \notin generic_reasons
    /\ Len(Strip(reason)) >= 10
    /\ WordCount(reason) >= 3

IsClockTime(t) ==
    /\ t # NoTime
    /\ Len(t) = 2
    /\ t[1] \in 0..23
    /\ t[2] \in 0..59

\* the time field that belongs to the type of the row
TimeForType(row) ==
    IF row.excuse_type = "late_arrival" THEN row.start_time ELSE row.end_time

C11_NoEarlyHourStored ==
    \A i \in 1..Len(excuses) :
        IsClockTime(TimeForType(excuses[i])) => TimeForType(excuses[i])[1] >= 6

\* the days the range of c covers, both ends included
Days(c) == c.end_date - c.start_date + 1

\* the balance row a call for c is charged to
Account(c) == <<c.employee_id, leave_type_mapping(c.leave_type)>>

\* C12: a confirmed submit_leave_request call for a paid leave type and a
\* well-formed range whose days exceed the stored balance of the account
\* returns at once the insufficient_balance error that names the stored
\* balance as available, and changes no balance and adds no row; no call that
\* returns insufficient_balance has written anything.
C12_InsufficientBalanceRefused ==
    [][\A s \in Callers :
          LET c == ActingCall(s)
          IN (Acts(s) /\ IsLeaveCall(c) /\ SaysYes(c) /\ WellFormedRange(c)
                /\ Account(c)[2] \in PaidTypes)
             => /\ (pc[s] = "idle" /\ balances[Account(c)] < Days(c)) =>
                     /\ response'.caller = s
                     /\ response'.result = [kind |-> "insufficient_balance",
                                            available |-> balances[Account(c)],
                                            requested |-> Days(c)]
                     /\ UNCHANGED db
                /\ (response'.caller = s /\ response'.result.kind = "insufficient_balance")
                     => UNCHANGED db]_vars

\* EMP005, annual balance 2, asked for more days than that and was told 2
C12_Witness ==
    /\ response.result.kind = "insufficient_balance"
    /\ SaysYes(response.call)
    /\ response.call.employee_id = "EMP005"
    /\ response.result.available = SeedAnnualEMP005
    /\ response.result.requested > SeedAnnualEMP005
    /\ balances[<<"EMP005", "annual">>] = SeedAnnualEMP005

\* C13: the preview an unconfirmed submit_leave_request call returns carries
\* the list of team conflicts for the requested range, and the list is
\* non-empty exactly when another member of the department holds pending or
\* approved leave overlapping the range.
C13_PreviewListsConflicts ==
    (response.result.kind = "preview" /\ WellFormedRange(response.call))
    => (("conflicts" \in DOMAIN response.result /\ response.result.conflicts # {})
        <=> ColleagueOverlaps(leave_requests, response.call))

\* a confirmed call that acknowledges conflicts, made while a colleague's
\* leave overlaps its range and the balance covers its days
Acknowledged(c) ==
    /\ IsLeaveCall(c)
    /\ SaysYes(c)
    /\ c.confirm_conflicts
    /\ WellFormedRange(c)
    /\ ValidType(c)
    /\ ColleagueOverlaps(leave_requests, c)
    /\ Account(c)[2] \in PaidTypes => balances[Account(c)] >= Days(c)

\* C14: while a colleague's leave overlaps the range, a call with
\* user_confirmed "yes", confirm_conflicts true and a sufficient balance goes
\* through every check and, unless the flush or commit itself fails, creates
\* the leave request in pending status and deducts its days from the balance.
C14_AcknowledgedConflictCommits ==
    [][\A s \in Callers :
          (Acts(s) /\ Acknowledged(ActingCall(s))) =>
             LET c == ActingCall(s)
             IN /\ pc[s] = "idle" => pc'[s] = "check_conflicts"
                /\ pc[s] = "check_conflicts" => pc'[s] = "deduct"
                /\ pc[s] = "deduct" => pc'[s] = "commit"
                /\ pc[s] = "commit" =>
                      /\ response'.caller = s
                      /\ \/ response'.result.kind = "exception" /\ UNCHANGED db
                         \/ /\ response'.result.kind = "success"
                            /\ leave_requests' =
                                  Append(leave_requests,
                                         [id |-> Len(leave_requests) + 1,
                                          employee_id |-> c.employee_id,
                                          leave_type |-> Account(c)[2],
                                          start_date |-> c.start_date,
                                          end_date |-> c.end_date,
                                          status |-> "pending"])
                            /\ balances' =
                                  IF Account(c)[2] \in PaidTypes
                                    THEN [balances EXCEPT ![Account(c)] = @ - Days(c)]
                                    ELSE balances]_vars

\* EMP005 was granted annual leave over the day EMP002 is away
C14_Witness ==
    /\ response.result.kind = "success"
    /\ IsLeaveCall(response.call)
    /\ response.call.confirm_conflicts
    /\ ColleagueOverlaps(leave_requests, response.call)
    /\ leave_requests[response.result.request_id].status = "pending"
    /\ Account(response.call)[2] \in PaidTypes
    /\ balances[Account(response.call)]
          = response.result.balance_info.original - Days(response.call)

\* caller s confirms the paid request it holds a preview of: the preview
\* showed enough balance, the stored balance is still the previewed one, and
\* no colleague's leave overlaps the range
ConfirmsPreviewed(s, c) ==
    /\ IsLeaveCall(c)
    /\ SaysYes(c)
    /\ held[s] # NoHeld
    /\ SameRequest(held[s].args, c)
    /\ Account(c)[2] \in PaidTypes
    /\ held[s].preview.current_balance >= Days(c)
    /\ balances[Account(c)] = held[s].preview.current_balance
    /\ ~ColleagueOverlaps(leave_requests, c)

\* C15: for a paid request of d days on a balance b >= d with no conflicts,
\* the preview reports the balance b, the days d and the remainder b - d; the
\* confirmed call that follows with nothing changed in between passes every
\* check and, unless the flush or commit itself fails, returns the generated
\* request id and balance_info with original b, used d and remaining b - d,
\* and the stored balance is then b - d.
C15_PreviewThenCommit ==
    [][\A s \in Callers :
          LET c == ActingCall(s)
          IN /\ (/\ Acts(s) /\ IsLeaveCall(c) /\ ~SaysYes(c)
                 /\ WellFormedRange(c) /\ ValidType(c)
                 /\ Account(c)[2] \in PaidTypes
                 /\ balances[Account(c)] >= Days(c))
                => /\ response'.caller = s
                   /\ response'.result.kind = "preview"
                   /\ ~response'.result.error
                   /\ response'.result.current_balance = balances[Account(c)]
                   /\ response'.result.days = Days(c)
                   /\ response'.result.remaining_after = balances[Account(c)] - Days(c)
             /\ (Acts(s) /\ ConfirmsPreviewed(s, c))
                => /\ pc[s] = "idle" => pc'[s] = "check_conflicts"
                   /\ pc[s] = "check_conflicts" => pc'[s] = "deduct"
                   /\ pc[s] = "deduct" => pc'[s] = "commit"
                   /\ pc[s] = "commit" =>
                         /\ response'.caller = s
                         /\ \/ response'.result.kind = "exception" /\ UNCHANGED db
                            \/ /\ response'.result =
                                     [kind |-> "success",
                                      request_id |-> Len(leave_requests) + 1,
                                      days |-> Days(c),
                                      balance_info |->
                                         [original |-> held[s].preview.current_balance,
                                          used |-> Days(c),
                                          remaining |-> held[s].preview.remaining_after]]
                               /\ Len(leave_requests') = Len(leave_requests) + 1
                               /\ balances'[Account(c)] = held[s].preview.remaining_after
                               /\ balances'[Account(c)] =
                                     held[s].preview.current_balance - Days(c)]_vars

\* the confirmed call returned what the preview had announced
C15_Witness ==
    /\ response.result.kind = "success"
    /\ IsLeaveCall(response.call)
    /\ held[response.caller] # NoHeld
    /\ SameRequest(held[response.caller].args, response.call)
    /\ Account(response.call)[2] \in PaidTypes
    /\ response.result.request_id = Len(leave_requests)
    /\ response.result.balance_info.original = held[response.caller].preview.current_balance
    /\ response.result.balance_info.remaining = held[response.caller].preview.remaining_after
    /\ balances[Account(response.call)] = held[response.caller].preview.remaining_after
    /\ ~ColleagueOverlaps(leave_requests, response.call)

\* the rows of the excuses table with the employee, date and type of call c
ExistingExcuses(c) ==
    {i \in 1..Len(excuses) :
        /\ excuses[i].employee_id = c.employee_id
        /\ excuses[i].date = c.excuse_date
        /\ excuses[i].excuse_type = ExcuseType(NormalizeExcuseType(c.excuse_type))}

\* C16: a create_excuse call for an employee, date and type that already
\* have an excuse creates no row, and the duplicate error it returns to the
\* caller references the existing excuse by its identifier.
C16_DuplicateNamesExisting ==
    (response.call.op = "create_excuse" /\ response.result.kind = "duplicate_excuse")
    => /\ "existing_excuse" \in DOMAIN response.result
       /\ response.result.existing_excuse \in ExistingExcuses(response.call)

\* C17: an Excuse row is persisted only by a create_excuse invocation that
\* follows a preview invocation of the same request and confirms it: a call
\* that returns success was preceded by a preview, which its caller holds;
\* the first invocation for a request creates no row.
C17_ExcuseOnlyAfterPreview ==
    (response.call.op = "create_excuse" /\ response.result.kind = "success")
    => /\ held[response.caller] # NoHeld
       /\ held[response.caller].args.op = "create_excuse"
       /\ held[response.caller].args.employee_id = response.call.employee_id
       /\ held[response.caller].args.excuse_date = response.call.excuse_date

\* C18: every failure of submit_leave_request and create_excuse, a storage
\* failure while flushing or committing included, reaches the caller as a
\* returned error result: no call ends with an exception raised out of the
\* operation.
C18_FailuresAreReturned ==
    response.call.op \in {"submit_leave_request", "create_excuse"}
    => response.result.kind # "exception"

\* C19: a preview call for a paid type whose days exceed the stored balance
\* returns a structured error and no confirmable preview: the reply carries
\* neither the preview flag nor the prompt that invites the caller to call
\* again with user_confirmed "yes".
C19_NoPreviewWithoutBalance ==
    (/\ IsLeaveCall(response.call)
     /\ ~SaysYes(response.call)
     /\ WellFormedRange(response.call)
     /\ Account(response.call)[2] \in PaidTypes
     /\ balances[Account(response.call)] < Days(response.call))
    => /\ response.result.kind # "preview"
       /\ "preview" \notin DOMAIN response.result
       /\ "action_required" \notin DOMAIN response.result

\* C20: a confirmed submit_leave_request call for unpaid leave never fails
\* for balance reasons, however long the range, and no step of it changes a
\* leave balance row, the employee's own unpaid row included: it ends in
\* success, in the team_conflict warning, or in a failed flush or commit.
C20_UnpaidTouchesNoBalance ==
    [][\A s \in Callers :
          LET c == ActingCall(s)
          IN (Acts(s) /\ IsLeaveCall(c) /\ SaysYes(c) /\ WellFormedRange(c)
                /\ LowerWord(c.leave_type) = "unpaid")
             => /\ balances' = balances
                /\ response'.caller = s =>
                      response'.result.kind \in {"success", "team_conflict", "exception"}
                /\ (response'.caller = s /\ response'.result.kind = "success") =>
                      /\ Len(leave_requests') = Len(leave_requests) + 1
                      /\ leave_requests'[Len(leave_requests')].leave_type = "unpaid"]_vars

\* unpaid leave longer than the unpaid balance row was granted and the row
\* still holds its seeded days
C20_Witness ==
    /\ response.result.kind = "success"
    /\ IsLeaveCall(response.call)
    /\ LowerWord(response.call.leave_type) = "unpaid"
    /\ Days(response.call) > SeedUnpaid
    /\ leave_requests[response.result.request_id].leave_type = "unpaid"
    /\ balances[<<response.call.employee_id, "unpaid">>] = SeedUnpaid

\* C21: the conflicts reported for the request of employee e over [s, t] are
\* exactly the leave rows of other employees of e's department in status
\* pending or approved with start <= t and end >= s; rejected rows, rows of
\* other departments and e's own rows are never among them.  The conflict
\* check returns the warning with that list when it is not empty and lets the
\* call go on when it is.
ExpectedConflicts(c) ==
    {r \in Rows(leave_requests) :
        /\ r.employee_id # c.employee_id
        /\ Department(r.employee_id) = Department(c.employee_id)
        /\ r.status \in {"pending", "approved"}
        /\ r.start_date <= c.end_date
        /\ r.end_date >= c.start_date}

C21_ConflictsExact ==
    [][\A s \in Callers :
          (Acts(s) /\ pc[s] = "check_conflicts" /\ ~call[s].confirm_conflicts) =>
             IF ExpectedConflicts(call[s]) # {}
               THEN /\ response'.caller = s
                    /\ response'.result = [kind |-> "team_conflict",
                                           conflicts |-> ExpectedConflicts(call[s])]
               ELSE pc'[s] = "deduct"]_vars

\* a warning that lists one colleague's leave while the table also holds a
\* rejected row that overlaps the range
C21_Witness ==
    /\ response.result.kind = "team_conflict"
    /\ Cardinality(response.result.conflicts) = 1
    /\ \E r \in Rows(leave_requests) :
          /\ r.status = "rejected"
          /\ r.employee_id # response.call.employee_id
          /\ Department(r.employee_id) = Department(response.call.employee_id)
          /\ r.start_date <= response.call.end_date
          /\ r.end_date >= response.call.start_date
          /\ r \notin response.result.conflicts

\* C22: in every interleaving of submit_leave_request calls the
\* balance_underflow branch is never taken: no call returns it, a deduction
\* a call has applied in memory leaves a balance >= 0, and no stored balance
\* is negative.
C22_UnderflowNeverTaken ==
    /\ response.result.kind # "balance_underflow"
    /\ \A s \in Callers :
          (pc[s] = "commit" /\ Account(call[s])[2] \in PaidTypes) =>
             /\ loc[s].remaining_balance >= 0
             /\ loc[s].remaining_balance = loc[s].original_balance - Days(call[s])
    /\ \A k \in DOMAIN balances : balances[k] >= 0

\* a deduction that took the whole balance: the days requested were exactly
\* the days the account held, and the stored balance is 0
C22_Witness ==
    /\ response.result.kind = "success"
    /\ IsLeaveCall(response.call)
    /\ Account(response.call)[2] \in PaidTypes
    /\ response.result.balance_info.original = Days(response.call)
    /\ response.result.balance_info.remaining = 0
    /\ balances[Account(response.call)] = 0

\* what the rule of C23 gives for hour h, minute m and the AM/PM mark of k
ExpectedTime(k) ==
    LET pm == Lower(k.mer) \in {<<"p", "m">>, <<" ", "p", "m">>}
        am == Lower(k.mer) \in {<<"a", "m">>, <<" ", "a", "m">>}
        h24 == IF pm /\ k.h < 12 THEN k.h + 12
               ELSE IF am /\ k.h = 12 THEN 0
               ELSE k.h
    IN IF h24 \notin 0..23 \/ k.m \notin 0..59 THEN NoTime ELSE <<h24, k.m>>

\* the rule's answer for the string of every case
ExpectedOf ==
    [str \in {Render(k) : k \in TimeCases} |->
        ExpectedTime(CHOOSE k \in TimeCases : Render(k) = str)]

\* C23: for every input of an accepted shape with hour h and minute m,
\* parse_time yields (h', m) with h' = h + 12 if PM and h < 12, h' = 0 if AM
\* and h = 12, and h' = h otherwise, and rejects the input, coercing nothing,
\* when h' is outside 0..23 or m outside 0..59: HRService.create_excuse
\* returns the invalid start_time error and stores nothing for a rejected
\* time, and stores exactly (h', m) otherwise.
C23_ParseTimeRule ==
    [][\A s \in Callers :
          (/\ Acts(s)
           /\ ActingCall(s).op = "HRService.create_excuse"
           /\ excuses = <<>>
           /\ ActingCall(s).start_time \in DOMAIN ExpectedOf) =>
             /\ pc[s] = "idle" =>
                   IF ExpectedOf[ActingCall(s).start_time] = NoTime
                     THEN /\ response'.caller = s
                          /\ response'.result.kind = "invalid_start_time"
                          /\ UNCHANGED db
                     ELSE pc'[s] = "insert"
             /\ excuses' # excuses =>
                   excuses'[1].start_time = ExpectedOf[ActingCall(s).start_time]]_vars

\* "3pm" was stored as 15:00
C23_Witness ==
    /\ response.call.op = "HRService.create_excuse"
    /\ response.call.start_time = <<"3", "p", "m">>
    /\ response.result.kind = "success"
    /\ excuses[1].start_time = <<15, 0>>

ReasonErrors == {"missing_reason", "not_a_reason", "generic_reason", "reason_too_short"}

\* C24: a create_excuse call that names the time for its type is rejected by
\* the reason gate, storing nothing, when its reason is empty or blank, when
\* trimmed and lower-cased it equals a generic placeholder, when it contains
\* an echo pattern, or when it has fewer than 10 characters or fewer than 3
\* words; a reason with none of these defects passes the gate.
C24_ReasonGate ==
    [][\A s \in Callers :
          LET c == ActingCall(s)
          IN (/\ Acts(s) /\ pc[s] = "idle"
              /\ c.op = "create_excuse"
              /\ c.excuse_type = LATE_ARRIVAL
              /\ c.start_time # <<>>)
             => IF ValidatedReason(c.reason)
                  THEN response'.caller = s => response'.result.kind \notin ReasonErrors
                  ELSE /\ response'.caller = s
                       /\ response'.result.kind \in ReasonErrors
                       /\ UNCHANGED db]_vars

\* "I was late today" was turned away after the reason about the overturned
\* truck had been accepted and stored
C24_Witness ==
    /\ response.call.op = "create_excuse"
    /\ response.result.kind = "not_a_reason"
    /\ response.call.reason =
          <<"I", " ", "w", "a", "s", " ", "l", "a", "t", "e", " ", "t", "o", "d", "a", "y">>
    /\ Len(excuses) = 1
    /\ excuses[1].reason = GoodReason

\* the message without letter case, fillers and surplus blanks, the blanks
\* squeezed after the fillers are taken out
Canonical(message) == Strip(JoinSplit(RemoveFillers(Lower(message), 1), 1))

\* positions of chat_history among its last 2 * lookback entries
LastEntries(chat_history, lookback) ==
    {p \in 1..Len(chat_history) : p > Len(chat_history) - 2 * lookback}

\* C25: a message that differs from an earlier user message of the window
\* only in letter case, in the amount of whitespace and in filler phrases,
\* wherever the filler stands, gets the same fingerprint under the same
\* intent, so check_duplicate reports it as a duplicate; the same message
\* under another intent gets another input to the hash.
C25_TrivialVariantsCollide ==
    response.call.op = "check_duplicate" =>
       LET c == response.call
       IN /\ (/\ c.lookback > 0
              /\ \E p \in LastEntries(c.chat_history, c.lookback) :
                    /\ c.chat_history[p].role = "user"
                    /\ Canonical(c.chat_history[p].content) = Canonical(c.message))
             => response.result.is_duplicate
          /\ \A other \in Intents \ {c.intent} :
                create_fingerprint(c.message, other) # response.result.message_fingerprint

\* C26: get_employee_profile reports eligible_for_advance = true exactly
\* when the days from hire_date to the day of the call are at least 365,
\* whatever an earlier call reported, and no call changes stored state.
C26_EligibleAfterOneYear ==
    [][\A s \in Callers :
          (response'.caller = s /\ response'.call.op = "get_employee_profile") =>
             /\ UNCHANGED db
             /\ response'.call.employee_id \in Directory =>
                   /\ response'.result.kind = "profile"
                   /\ response'.result.eligible_for_advance
                         <=> (response'.call.today
                                - hire_date(response'.call.employee_id) >= 365)]_vars

\* a call on the first anniversary itself
C26_Witness ==
    /\ response.call.op = "get_employee_profile"
    /\ response.call.employee_id = "EMP005"
    /\ response.call.today - HireEMP005 = 365
    /\ response.result.eligible_for_advance

\* the user messages among the last 2 * lookback entries of the call's
\* chat_history that carry the fingerprint of the call's message
WindowMatches(c) ==
    {p \in LastEntries(c.chat_history, c.lookback) :
        /\ c.chat_history[p].role = "user"
        /\ create_fingerprint(c.chat_history[p].content, c.intent)
              = create_fingerprint(c.message, c.intent)}

\* C27: for every lookback >= 0 and every chat history, check_duplicate
\* reports is_duplicate only when a user message among the last
\* 2 * lookback entries of chat_history has the fingerprint of the current
\* message; an older message never makes it report a duplicate.
C27_WindowBounded ==
    (response.call.op = "check_duplicate" /\ response.result.is_duplicate)
       => WindowMatches(response.call) # {}

\* C28: when check_duplicate reports a duplicate, original_message_index
\* is the index in chat_history (counted from 0) of the earliest matching
\* user message inside the lookback window, whatever the length of the
\* history.
C28_IndexIntoHistory ==
    (/\ response.call.op = "check_duplicate"
     /\ response.call.lookback > 0
     /\ response.result.is_duplicate)
       => \E p \in WindowMatches(response.call) :
             /\ \A q \in WindowMatches(response.call) : p <= q
             /\ response.result.original_message_index = p - 1

\* C29: no call with confirm_conflicts = False commits a leave request
\* while, at the moment of its commit, another member of its department
\* holds a committed pending or approved leave that overlaps its range,
\* also when the calls run concurrently in separate sessions.
C29_NoUnacknowledgedOverlapAtCommit ==
    [][\A s \in Callers :
          (/\ pc[s] = "commit"
           /\ response'.caller = s
           /\ Len(leave_requests') > Len(leave_requests)
           /\ ~call[s].confirm_conflicts)
          => ~ColleagueOverlaps(leave_requests, call[s])]_vars

\* C30: every row of leave_requests belongs to an employee of the employees
\* table, for every leave type including unpaid: a confirmed call for an
\* unknown employee_id creates no row.
C30_RowsBelongToEmployees ==
    \A r \in Rows(leave_requests) : r.employee_id \in Directory

=============================================================================
